---- MODULE Spec2Model ----
(***************************************************************************)
(* Model of src/app/app.py: the CrashLoopBackOff monitor.  One background  *)
(* thread (monitor_loop) scans the cluster, gates each detection on a      *)
(* per-fingerprint cooldown, sends a mail and persists two JSON documents  *)
(* (state.json, events.json) through save_json; Flask request handlers     *)
(* read events.json concurrently.  The process may be killed at any step   *)
(* and started again.                                                      *)
(***************************************************************************)
EXTENDS Integers, Sequences, FiniteSets, TLC

(***************************************************************************)
(* Bounds of the model.                                                    *)
(***************************************************************************)
\* largest value ALERT_COOLDOWN_SECONDS takes (the other value tried is 0)
MaxCooldown == 2
\* the wall clock runs from StartEpoch to StartEpoch + MaxElapsed
MaxElapsed == 2
\* the length the event log is cut to: stands for the 200 of events[-200:]
MaxEvents == 2
\* the length a message is cut to: stands for the 500 of [:500]
MessageLimit == 2

\* time.time() at process start: an epoch far larger than any cooldown
StartEpoch == MaxCooldown + 1
MaxTime == StartEpoch + MaxElapsed

Min(a, b) == IF a < b THEN a ELSE b

(***************************************************************************)
(* Configuration (module level of app.py).                                 *)
(***************************************************************************)
STATE_FILE == "state.json"
EVENTS_FILE == "events.json"
Paths == {STATE_FILE, EVENTS_FILE, STATE_FILE \o ".tmp", EVENTS_FILE \o ".tmp"}

\* values of ALERT_COOLDOWN_SECONDS the model starts with
CooldownChoices == {0, MaxCooldown}
\* values of NAMESPACES the model starts with: no filter, or a filter that
\* names one namespace twice (the list is not deduplicated)
NamespaceChoices == {<<>>, <<"ns1", "ns1">>}

(***************************************************************************)
(* File contents.  A file is absent, holds a complete JSON document, or    *)
(* holds a prefix of one (opened for writing, json.dump not finished).     *)
(***************************************************************************)
Absent == [kind |-> "absent", doc |-> <<>>]
Partial == [kind |-> "partial", doc |-> <<>>]
Doc(d) == [kind |-> "doc", doc |-> d]

EmptyState == [k \in {} |-> 0]

\* variant: load_json without its try/except, json.load raising on a file
\* that holds no complete document
LoadRaisesUncaught(content) == content.kind = "partial"

\* load_json lines 39-44: does an exception leave the function?  Never: the
\* except clause catches whatever open or json.load raise
LoadRaises(content) == FALSE

\* variant: load_json ignoring what the file holds
LoadJsonDefault(content, default) == default

\* load_json: the document, or the default when the file is missing or
\* cannot be parsed
LoadJson(content, default) ==
    IF content.kind = "doc" THEN content.doc ELSE default

\* variant: save_json writing the target file in place
TmpPathInPlace(path) == path

\* save_json line 48: the path the document is first written to
TmpPath(path) == path \o ".tmp"

\* save_json line 49: open(tmp, "w") creates or truncates the file
OpenForWrite(files, path) == [files EXCEPT ![path] = Partial]

\* save_json line 50: json.dump has written the whole document
DumpJson(files, path, obj) == [files EXCEPT ![path] = Doc(obj)]

\* save_json line 51: os.replace(src, dst), one atomic rename
OsReplace(files, src, dst) ==
    IF src = dst THEN files
    ELSE [files EXCEPT ![dst] = files[src], ![src] = Absent]

\* variant: ensure_data_dir without the os.path.exists test
EnsureDataDirAlways(files) ==
    DumpJson(OpenForWrite(files, EVENTS_FILE), EVENTS_FILE, <<>>)

\* ensure_data_dir lines 34-36, taken as one step
EnsureDataDir(files) ==
    IF files[EVENTS_FILE].kind = "absent"
    THEN DumpJson(OpenForWrite(files, EVENTS_FILE), EVENTS_FILE, <<>>)
    ELSE files

(***************************************************************************)
(* fp: sha256 of "ns|pod|container|reason".  The digest is modelled as an  *)
(* injective tag on the joined string.                                     *)
(***************************************************************************)
Sha256(raw) == "sha256:" \o raw

fp(ns, pod, container, reason) ==
    Sha256(ns \o "|" \o pod \o "|" \o container \o "|" \o reason)

\* variant: the restart count made part of the key
KeyWithRestarts(e) ==
    fp(e.namespace, e.pod, e.container \o (IF e.restarts = 0 THEN "" ELSE "+"), e.reason)

\* line 146: the key of a detection
KeyOf(e) == fp(e.namespace, e.pod, e.container, e.reason)

\* state.get(key, 0)
LastSent(st, key) == IF key \in DOMAIN st THEN st[key] ELSE 0

\* variant: the entry set one second before the tick time
PutStateEarlier(st, key, epoch) ==
    [k \in (DOMAIN st) \cup {key} |-> IF k = key THEN epoch - 1 ELSE st[k]]

\* state[key] = now_epoch
PutState(st, key, epoch) ==
    [k \in (DOMAIN st) \cup {key} |-> IF k = key THEN epoch ELSE st[k]]

\* variant: the entry written whatever send_gmail returned
AfterSendAlways(st, key, epoch, ok) == PutState(st, key, epoch)

\* variant: the entry not written while the tick runs, so that the gate of
\* a later detection of the tick reads the state of before the tick
AfterSendDeferred(st, key, epoch, ok) == st

\* lines 160-161: if sent: state[key] = now_epoch
AfterSend(st, key, epoch, ok) == IF ok THEN PutState(st, key, epoch) ELSE st

\* variants of the cooldown test: one second early, strict, and no test
CooldownEarly(epoch, last_sent, cooldown) == epoch - last_sent >= cooldown - 1
CooldownStrict(epoch, last_sent, cooldown) == epoch - last_sent > cooldown
CooldownAlways(epoch, last_sent, cooldown) == TRUE

\* line 149: now_epoch - last_sent >= COOLDOWN_SECONDS
CooldownElapsed(epoch, last_sent, cooldown) == epoch - last_sent >= cooldown

\* variant: events[:200], the oldest entries kept
FirstN(s, n) == IF Len(s) <= n THEN s ELSE SubSeq(s, 1, n)

\* events[-200:]
LastN(s, n) == IF Len(s) <= n THEN s ELSE SubSeq(s, Len(s) - n + 1, Len(s))

\* lines 164-165: events.append({**e, "email_sent": bool(sent)}); events[-200:]
EventOf(e, ok) ==
    [time |-> e.time, namespace |-> e.namespace, pod |-> e.pod,
     container |-> e.container, restarts |-> e.restarts,
     message |-> e.message, reason |-> e.reason, email_sent |-> ok]

\* variant: the new Event put in front of the list
PrependEvent(evs, e, ok) == LastN(<<EventOf(e, ok)>> \o evs, MaxEvents)

AppendEvent(evs, e, ok) == LastN(Append(evs, EventOf(e, ok)), MaxEvents)

(***************************************************************************)
(* The cluster as the API client reports it.  An optional attribute is a   *)
(* sequence: <<>> for None, <<v>> for a value.                             *)
(***************************************************************************)
CrashLoop == "CrashLoopBackOff"

Waiting(reason, message) == <<[reason |-> reason, message |-> message]>>
Status(name, waiting, restart_count) ==
    [name |-> name, waiting |-> waiting, restart_count |-> restart_count]
Pod(ns, name, regular, init) ==
    [namespace |-> ns, name |-> name,
     container_statuses |-> regular, init_container_statuses |-> init]

\* ns1/p1, container c1 crash-looping, no restart count, no message
PodA1 == Pod("ns1", "p1", <<Status("c1", Waiting(CrashLoop, <<>>), <<>>)>>, <<>>)
\* the same container later: 5 restarts and a message longer than the limit
PodA2 == Pod("ns1", "p1",
             <<Status("c1", Waiting(CrashLoop, <<"b", "a", "d">>), <<5>>)>>, <<>>)
\* ns2/p2: the regular container runs, the init container crash-loops
PodB == Pod("ns2", "p2", <<Status("c1", <<>>, <<0>>)>>,
            <<Status("i1", Waiting(CrashLoop, <<"x">>), <<1>>)>>)
\* ns1/p3: waiting, but for another reason
PodC == Pod("ns1", "p3", <<Status("c1", Waiting("ImagePullBackOff", <<>>), <<0>>)>>, <<>>)

\* ns2/p4: a crash-looping and a running regular container, and a
\* crash-looping init container
PodD == Pod("ns2", "p4",
            <<Status("c1", Waiting(CrashLoop, <<"y">>), <<2>>), Status("c2", <<>>, <<0>>)>>,
            <<Status("i1", Waiting(CrashLoop, <<>>), <<>>)>>)

\* what list_pod_for_all_namespaces may return at one scan
Snapshots == {<<PodC>>, <<PodA1>>, <<PodA2, PodB>>}

\* for the scanner on its own: every list of at most two of the pods, and
\* filters naming no, one, two, an unpopulated and a repeated namespace
ScanPodPool == {PodA1, PodA2, PodB, PodC, PodD}
ScanInputs ==
    {<<>>} \cup {<<p>> : p \in ScanPodPool}
           \cup {<<p, q>> : p \in ScanPodPool, q \in ScanPodPool}
FilterInputs == {<<>>, <<"ns1">>, <<"ns2", "ns1">>, <<"ns1", "ns1">>, <<"ns3">>}

\* variant: list_namespaced_pod returning the pods of every namespace
ListAllPods(cluster, ns) == cluster

\* v1.list_namespaced_pod(ns)
ListNamespacedPod(cluster, ns) ==
    LET InNs(p) == p.namespace = ns IN SelectSeq(cluster, InNs)

\* st.restart_count or 0
OrZero(opt) == IF opt = <<>> THEN 0 ELSE opt[1]

\* (waiting.message or "")[:500]
CutMessage(m) == SubSeq(m, 1, Min(Len(m), MessageLimit))

\* lines 109-120: the detection records of one status list
RECURSIVE ScanStatuses(_, _, _, _)
ScanStatuses(ns, name, statuses, t) ==
    IF statuses = <<>> THEN <<>>
    ELSE LET st == Head(statuses)
             rest == ScanStatuses(ns, name, Tail(statuses), t)
         IN IF st.waiting # <<>> /\ st.waiting[1].reason = CrashLoop
            THEN <<[time |-> t, namespace |-> ns, pod |-> name,
                    container |-> st.name,
                    restarts |-> OrZero(st.restart_count),
                    message |-> CutMessage(st.waiting[1].message),
                    reason |-> CrashLoop]>> \o rest
            ELSE rest

\* scan_pods, lines 104-120
RECURSIVE ScanPods(_, _)
ScanPods(pods, t) ==
    IF pods = <<>> THEN <<>>
    ELSE LET pod == Head(pods)
         IN ScanStatuses(pod.namespace, pod.name,
                         pod.container_statuses \o pod.init_container_statuses, t)
            \o ScanPods(Tail(pods), t)

\* lines 122-126 with a filter: one query per listed namespace, in order
RECURSIVE ScanNamespaces(_, _, _)
ScanNamespaces(cluster, nss, t) ==
    IF nss = <<>> THEN <<>>
    ELSE ScanPods(ListNamespacedPod(cluster, Head(nss)), t)
         \o ScanNamespaces(cluster, Tail(nss), t)

\* list_crashloops, lines 101-128
ListCrashloops(cluster, nss, t) ==
    IF nss # <<>> THEN ScanNamespaces(cluster, nss, t) ELSE ScanPods(cluster, t)

(***************************************************************************)
(* State.                                                                  *)
(***************************************************************************)
VARIABLES
    COOLDOWN_SECONDS,  \* configuration, fixed at start
    NAMESPACES,        \* configuration, fixed at start
    now,               \* the wall clock, in seconds
    fs,                \* the data directory: path -> content
    pc,                \* where the process / monitor thread is
    state,             \* monitor_loop's state dict
    events,            \* monitor_loop's events list
    cluster,           \* the pods the API listed at this tick's scan
    crashloops,        \* this tick's detections
    idx,               \* position of the for loop in crashloops
    now_epoch,         \* this tick's now_epoch
    sent,              \* result of the last send_gmail call
    web_pc,            \* where the request handler is
    web_events,        \* what the request handler loaded
    \* history variables: they record what happened and steer nothing
    lastOk,            \* identity tuple -> time of its last successful send
                       \* by the running process
    lastTry,           \* identity tuple -> time and result of the last
                       \* send_gmail call for it by the running process
    delivered,         \* identity tuple -> time of its last successful send
                       \* by any run of the process
    pending,           \* Events appended in memory and not yet committed
    committed,         \* the event log document the last os.replace committed
    saved_prev,        \* the target file's content when the save_json call
                       \* in progress (or cut short by a kill) began
    crashedAt          \* where the process was when it was last killed

vars == <<COOLDOWN_SECONDS, NAMESPACES, now, fs, pc, state, events, cluster, crashloops,
          idx, now_epoch, sent, web_pc, web_events,
          lastOk, lastTry, delivered, pending, committed, saved_prev, crashedAt>>

config == <<COOLDOWN_SECONDS, NAMESPACES>>
memory == <<state, events>>
tick == <<cluster, crashloops, idx, now_epoch, sent>>
web == <<web_pc, web_events>>
log == <<pending, committed>>
history == <<lastOk, lastTry, delivered>>

\* the identity of a detection, and a table keyed by identities
TupleOf(e) ==
    [namespace |-> e.namespace, pod |-> e.pod, container |-> e.container,
     reason |-> e.reason]
NoTuples == [t \in {} |-> 0]
Record(table, t, v) ==
    [u \in (DOMAIN table) \cup {t} |-> IF u = t THEN v ELSE table[u]]

HasCur == idx <= Len(crashloops)
Cur == crashloops[idx]
CurKey == KeyOf(Cur)

\* variant: only the ApiException clause, anything else ends the thread
OnExceptionApiOnly(kind) == IF kind = "ApiException" THEN "sleep" ELSE "exited"

\* both except clauses of monitor_loop (lines 170-175) sleep and loop again;
\* "exited" would be the thread ending with the exception
OnException(kind) == "sleep"

\* the locals of one tick are dead once the tick is left: each is assigned
\* again (lines 142, 143, 145, 159) before it is read
EndTick ==
    /\ cluster' = <<>>
    /\ crashloops' = <<>>
    /\ idx' = 1
    /\ now_epoch' = 0
    /\ sent' = FALSE

StateSavePcs == {"state_open", "state_dump", "state_replace"}
EventsSavePcs == {"events_open", "events_dump", "events_replace"}
SavePcs == StateSavePcs \cup EventsSavePcs
TickPcs == {"scan", "gate", "send", "append"} \cup SavePcs

Init ==
    /\ COOLDOWN_SECONDS \in CooldownChoices
    /\ NAMESPACES \in NamespaceChoices
    /\ now = StartEpoch
    /\ fs = [p \in Paths |-> Absent]
    /\ pc = "boot"
    /\ state = EmptyState
    /\ events = <<>>
    /\ cluster = <<>>
    /\ crashloops = <<>>
    /\ idx = 1
    /\ now_epoch = 0
    /\ sent = FALSE
    /\ web_pc = "idle"
    /\ web_events = <<>>
    /\ lastOk = NoTuples
    /\ lastTry = NoTuples
    /\ delivered = NoTuples
    /\ pending = <<>>
    /\ committed = <<>>
    /\ saved_prev = Absent
    /\ crashedAt = "none"

(***************************************************************************)
(* __main__, line 248: ensure_data_dir before the thread and the server    *)
(* start.  The file is created in place: open, then json.dump.             *)
(***************************************************************************)
BootOpen ==
    /\ pc = "boot"
    /\ IF fs[EVENTS_FILE].kind = "absent"
       THEN fs' = OpenForWrite(fs, EVENTS_FILE) /\ pc' = "boot_dump"
       ELSE fs' = fs /\ pc' = "start"
    /\ UNCHANGED <<config, now, memory, tick, web, history, log, saved_prev, crashedAt>>

BootDump ==
    /\ pc = "boot_dump"
    /\ fs' = DumpJson(fs, EVENTS_FILE, <<>>)
    /\ pc' = "start"
    /\ UNCHANGED <<config, now, memory, tick, web, history, log, saved_prev, crashedAt>>

\* monitor_loop lines 131-138; an exception here is outside the try of the
\* loop and ends the thread
MonitorStart ==
    /\ pc = "start"
    /\ fs' = EnsureDataDir(fs)
    /\ IF LoadRaises(fs'[STATE_FILE]) \/ LoadRaises(fs'[EVENTS_FILE])
       THEN /\ pc' = "exited"
            /\ UNCHANGED memory
       ELSE /\ state' = LoadJson(fs'[STATE_FILE], EmptyState)
            /\ events' = LoadJson(fs'[EVENTS_FILE], <<>>)
            /\ pc' = "scan"
    /\ crashedAt' = "none"
    /\ saved_prev' = Absent
    /\ UNCHANGED <<config, now, tick, web, history, log>>

\* lines 142-143: the scan returned, the API having listed one of `clusters`
Scan(clusters) ==
    /\ pc = "scan"
    /\ cluster' \in clusters
    /\ crashloops' = ListCrashloops(cluster', NAMESPACES, now)
    /\ now_epoch' = now
    /\ idx' = 1
    /\ pc' = "gate"
    /\ UNCHANGED <<config, now, fs, memory, sent, web, history, log, saved_prev, crashedAt>>

ScanOk == Scan(Snapshots)

\* the same with any of the scanner inputs
ScanWide == Scan(ScanInputs)

\* line 142: a list call raised ApiException
ScanApiError ==
    /\ pc = "scan"
    /\ pc' = OnException("ApiException")
    /\ EndTick
    /\ UNCHANGED <<config, now, fs, memory, web, history, log, saved_prev, crashedAt>>

\* line 145: the for loop is exhausted; line 168
TickDone ==
    /\ pc = "gate"
    /\ ~HasCur
    /\ pc' = "sleep"
    /\ EndTick
    /\ UNCHANGED <<config, now, fs, memory, web, history, log, saved_prev, crashedAt>>

\* lines 146-149, condition false: next detection
GateSkip ==
    /\ pc = "gate"
    /\ HasCur
    /\ ~CooldownElapsed(now_epoch, LastSent(state, CurKey), COOLDOWN_SECONDS)
    /\ idx' = idx + 1
    /\ UNCHANGED <<config, now, fs, pc, memory, cluster, crashloops, now_epoch, sent,
                   web, history, log, saved_prev, crashedAt>>

\* lines 146-158, condition true: about to call send_gmail
GatePass ==
    /\ pc = "gate"
    /\ HasCur
    /\ CooldownElapsed(now_epoch, LastSent(state, CurKey), COOLDOWN_SECONDS)
    /\ pc' = "send"
    /\ UNCHANGED <<config, now, fs, memory, tick, web, history, log, saved_prev, crashedAt>>

\* lines 159-162: send_gmail returned `ok`; on True the state is updated and
\* save_json(STATE_FILE, state) begins
Send(ok) ==
    /\ pc = "send"
    /\ sent' = ok
    /\ state' = AfterSend(state, CurKey, now_epoch, ok)
    /\ pc' = IF ok THEN "state_open" ELSE "append"
    /\ lastOk' = IF ok THEN Record(lastOk, TupleOf(Cur), now_epoch) ELSE lastOk
    /\ lastTry' = Record(lastTry, TupleOf(Cur), [at |-> now_epoch, ok |-> ok])
    /\ delivered' = IF ok THEN Record(delivered, TupleOf(Cur), now_epoch) ELSE delivered
    /\ saved_prev' = IF ok THEN fs[STATE_FILE] ELSE saved_prev
    /\ UNCHANGED <<config, now, fs, events, cluster, crashloops, idx, now_epoch, web, log,
                   crashedAt>>

\* send_gmail returned True
SendOk == Send(TRUE)

\* send_gmail returned False (not configured, or SMTP failed)
SendFail == Send(FALSE)

\* save_json(STATE_FILE, state), lines 48-51
StateOpen ==
    /\ pc = "state_open"
    /\ fs' = OpenForWrite(fs, TmpPath(STATE_FILE))
    /\ pc' = "state_dump"
    /\ UNCHANGED <<config, now, memory, tick, web, history, log, saved_prev, crashedAt>>

StateDump ==
    /\ pc = "state_dump"
    /\ fs' = DumpJson(fs, TmpPath(STATE_FILE), state)
    /\ pc' = "state_replace"
    /\ UNCHANGED <<config, now, memory, tick, web, history, log, saved_prev, crashedAt>>

StateReplace ==
    /\ pc = "state_replace"
    /\ fs' = OsReplace(fs, TmpPath(STATE_FILE), STATE_FILE)
    /\ pc' = "append"
    /\ saved_prev' = Absent
    /\ UNCHANGED <<config, now, memory, tick, web, history, log, crashedAt>>

\* lines 164-165; save_json(EVENTS_FILE, events) begins
AppendStep ==
    /\ pc = "append"
    /\ events' = AppendEvent(events, Cur, sent)
    /\ pc' = "events_open"
    /\ pending' = Append(pending, EventOf(Cur, sent))
    /\ saved_prev' = fs[EVENTS_FILE]
    /\ UNCHANGED <<config, now, fs, state, tick, web, history, committed, crashedAt>>

\* save_json(EVENTS_FILE, events), lines 48-51
EventsOpen ==
    /\ pc = "events_open"
    /\ fs' = OpenForWrite(fs, TmpPath(EVENTS_FILE))
    /\ pc' = "events_dump"
    /\ UNCHANGED <<config, now, memory, tick, web, history, log, saved_prev, crashedAt>>

EventsDump ==
    /\ pc = "events_dump"
    /\ fs' = DumpJson(fs, TmpPath(EVENTS_FILE), events)
    /\ pc' = "events_replace"
    /\ UNCHANGED <<config, now, memory, tick, web, history, log, saved_prev, crashedAt>>

EventsReplace ==
    /\ pc = "events_replace"
    /\ fs' = OsReplace(fs, TmpPath(EVENTS_FILE), EVENTS_FILE)
    /\ idx' = idx + 1
    /\ pc' = "gate"
    /\ pending' = <<>>
    /\ committed' = events
    /\ saved_prev' = Absent
    /\ UNCHANGED <<config, now, memory, cluster, crashloops, now_epoch, sent, web,
                   history, crashedAt>>

\* a step of save_json raised (disk full, permissions): lines 173-175
WriteError ==
    /\ pc \in SavePcs
    /\ pc' = OnException("OSError")
    /\ EndTick
    /\ saved_prev' = Absent
    /\ UNCHANGED <<config, now, fs, memory, web, history, log, crashedAt>>

\* time.sleep(INTERVAL_SECONDS), lines 168, 172, 175; INTERVAL_SECONDS >= 1
Sleep ==
    /\ pc = "sleep"
    /\ \E d \in 1..MaxElapsed :
          /\ now + d <= MaxTime
          /\ now' = now + d
    /\ pc' = "scan"
    /\ UNCHANGED <<config, fs, memory, tick, web, history, log, saved_prev, crashedAt>>

(***************************************************************************)
(* The process is killed (the monitor is a daemon thread of it) and        *)
(* started again: memory is lost, the files stay.                          *)
(***************************************************************************)
Crash ==
    /\ pc \notin {"down", "exited"}
    /\ pc' = "down"
    /\ state' = EmptyState
    /\ events' = <<>>
    /\ EndTick
    /\ web_pc' = "idle"
    /\ web_events' = <<>>
    /\ lastOk' = NoTuples
    /\ lastTry' = NoTuples
    /\ pending' = <<>>
    /\ crashedAt' = pc
    /\ saved_prev' = IF pc \in SavePcs THEN saved_prev ELSE Absent
    /\ UNCHANGED <<config, now, fs, committed, delivered>>

\* starting the process again takes time
Restart ==
    /\ pc = "down"
    /\ \E d \in 1..MaxElapsed :
          /\ now + d <= MaxTime
          /\ now' = now + d
    /\ pc' = "boot"
    /\ UNCHANGED <<config, fs, memory, tick, web, history, log, saved_prev, crashedAt>>

(***************************************************************************)
(* api_events / home, lines 228-245: ensure_data_dir, load_json, respond.  *)
(***************************************************************************)
ServerUp == pc \notin {"down", "boot", "boot_dump"}

WebRequest ==
    /\ ServerUp
    /\ web_pc = "idle"
    /\ fs' = EnsureDataDir(fs)
    /\ web_pc' = "load"
    /\ UNCHANGED <<config, now, pc, memory, tick, web_events, history, log,
                   saved_prev, crashedAt>>

WebLoad ==
    /\ web_pc = "load"
    /\ IF LoadRaises(fs[EVENTS_FILE])
       THEN web_pc' = "error" /\ web_events' = web_events
       ELSE web_pc' = "respond" /\ web_events' = LoadJson(fs[EVENTS_FILE], <<>>)
    /\ UNCHANGED <<config, now, fs, pc, memory, tick, history, log, saved_prev, crashedAt>>

\* jsonify(events) / render_template_string(...)
WebRespond ==
    /\ web_pc = "respond"
    /\ web_pc' = "idle"
    /\ web_events' = <<>>
    /\ UNCHANGED <<config, now, fs, pc, memory, tick, history, log, saved_prev, crashedAt>>

MonitorNext ==
    \/ BootOpen \/ BootDump \/ MonitorStart
    \/ ScanOk
    \/ TickDone \/ GateSkip \/ GatePass
    \/ SendOk \/ SendFail
    \/ StateOpen \/ StateDump \/ StateReplace
    \/ AppendStep
    \/ EventsOpen \/ EventsDump \/ EventsReplace
    \/ Sleep

ErrorNext == ScanApiError \/ WriteError

ProcessNext == Crash \/ Restart

WebNext == WebRequest \/ WebLoad \/ WebRespond

Next == MonitorNext \/ ErrorNext \/ ProcessNext \/ WebNext

\* the start of the process with any of the scanner's filters
InitScan ==
    /\ COOLDOWN_SECONDS \in CooldownChoices
    /\ NAMESPACES \in FilterInputs
    /\ now = StartEpoch
    /\ fs = [p \in Paths |-> Absent]
    /\ pc = "boot"
    /\ state = EmptyState
    /\ events = <<>>
    /\ cluster = <<>>
    /\ crashloops = <<>>
    /\ idx = 1
    /\ now_epoch = 0
    /\ sent = FALSE
    /\ web_pc = "idle"
    /\ web_events = <<>>
    /\ lastOk = NoTuples
    /\ lastTry = NoTuples
    /\ delivered = NoTuples
    /\ pending = <<>>
    /\ committed = <<>>
    /\ saved_prev = Absent
    /\ crashedAt = "none"

ScanNext ==
    \/ BootOpen \/ BootDump \/ MonitorStart
    \/ ScanWide \/ ScanApiError
    \/ Sleep

\* everything together
Spec == Init /\ [][Next]_vars

\* the monitor thread with its errors and the process being killed
SpecMonitor == Init /\ [][MonitorNext \/ ErrorNext \/ ProcessNext]_vars

\* the monitor thread, the process being killed and the request handlers
SpecWeb == Init /\ [][MonitorNext \/ ProcessNext \/ WebNext]_vars

\* the scanner on its own: start, scan (or API error), sleep, scan again
SpecScan == InitScan /\ [][ScanNext]_vars

(***************************************************************************)
(* Properties.                                                             *)
(***************************************************************************)
Max(a, b) == IF a > b THEN a ELSE b

\* the n last entries of s, in their order
KeepNewest(s, n) == SubSeq(s, Max(1, Len(s) - n + 1), Len(s))

\* the entry of the alert state a detection is gated on, 0 when there is none
EntryOf(e) == IF KeyOf(e) \in DOMAIN state THEN state[KeyOf(e)] ELSE 0

\* send_gmail was called for e's identity in the current tick
AttemptedNow(e) ==
    /\ TupleOf(e) \in DOMAIN lastTry
    /\ lastTry[TupleOf(e)].at = now_epoch

\* the document a file holds, or the default
DocOr(content, default) == IF content.kind = "doc" THEN content.doc ELSE default

\* C1: cooldown gate, safety.  Whenever the monitor is about to call
\* send_gmail for a detection (pc = "send") at tick time now_epoch, every
\* successful send of the running process for the same fingerprint lies at
\* least COOLDOWN_SECONDS back.  (lastOk holds the latest such send; the
\* clock never runs backwards, so earlier ones lie further back.)
CooldownGateSafety ==
    pc = "send" =>
        \A t \in DOMAIN lastOk :
            fp(t.namespace, t.pod, t.container, t.reason) = CurKey
                => now_epoch - lastOk[t] >= COOLDOWN_SECONDS

\* C1 witness: a second delivery attempt for a fingerprint that was sent
\* successfully before, under a positive cooldown
CooldownGateSafetyWitness ==
    /\ pc = "send"
    /\ COOLDOWN_SECONDS > 0
    /\ TupleOf(Cur) \in DOMAIN lastOk

FailureRetry ==
    /\ [](pc = "gate" /\ HasCur /\ TupleOf(Cur) \in DOMAIN lastTry
            /\ ~lastTry[TupleOf(Cur)].ok
          => now_epoch - EntryOf(Cur) >= COOLDOWN_SECONDS)
    /\ [][ /\ state' # state =>
                 (pc = "send" /\ sent') \/ pc = "start" \/ pc' = "down"
           /\ fs'[STATE_FILE] # fs[STATE_FILE] => (pc = "state_replace" /\ sent)
           /\ (pc = "send" /\ pc' \notin {"send", "down"} /\ ~sent') =>
                 (state' = state /\ fs' = fs) ]_vars

\* C3 witness: a delivery attempt one tick after a failed one, sooner than
\* a cooldown would allow
FailureRetryWitness ==
    /\ pc = "send"
    /\ TupleOf(Cur) \in DOMAIN lastTry
    /\ ~lastTry[TupleOf(Cur)].ok
    /\ lastTry[TupleOf(Cur)].at < now_epoch
    /\ now_epoch - lastTry[TupleOf(Cur)].at < COOLDOWN_SECONDS

\* C4: bounded log.  The persisted event log never holds more than
\* MaxEvents entries; it changes only when a save of the log commits (or
\* when the empty log is created at start), and a commit leaves exactly the
\* MaxEvents newest entries of the log it replaces followed by the Events
\* appended since, in append order.
BoundedLog ==
    /\ [](fs[EVENTS_FILE].kind = "doc" => Len(fs[EVENTS_FILE].doc) <= MaxEvents)
    /\ [][ /\ (pc = "events_replace" /\ pc' = "gate") =>
                 fs'[EVENTS_FILE] =
                     Doc(KeepNewest(DocOr(fs[EVENTS_FILE], <<>>) \o pending, MaxEvents))
           /\ fs'[EVENTS_FILE] # fs[EVENTS_FILE] =>
                 pc \in {"events_replace", "boot", "boot_dump"} ]_vars

\* C4 witness: a save of a full log about to commit a document that has
\* dropped the oldest entry and holds the others, in order, before the new
BoundedLogWitness ==
    /\ pc = "events_replace"
    /\ fs[EVENTS_FILE].kind = "doc"
    /\ Len(fs[EVENTS_FILE].doc) = MaxEvents
    /\ fs[TmpPath(EVENTS_FILE)].kind = "doc"
    /\ Len(fs[TmpPath(EVENTS_FILE)].doc) = MaxEvents
    /\ fs[TmpPath(EVENTS_FILE)].doc[1] = fs[EVENTS_FILE].doc[2]
    /\ fs[TmpPath(EVENTS_FILE)].doc[1] # fs[EVENTS_FILE].doc[1]
    /\ fs[TmpPath(EVENTS_FILE)].doc[MaxEvents].time = now_epoch

\* C5: crash safety of save_json.  When the process is killed inside a
\* save_json call (before os.replace ran), the target file holds what it
\* held when the call began, and the next start loads exactly that.
CrashSafeSave ==
    /\ []((crashedAt \in StateSavePcs => fs[STATE_FILE] = saved_prev)
          /\ (crashedAt \in EventsSavePcs => fs[EVENTS_FILE] = saved_prev))
    /\ [][ (pc = "start" /\ pc' = "scan") =>
              /\ crashedAt \in StateSavePcs => state' = DocOr(saved_prev, EmptyState)
              /\ crashedAt \in EventsSavePcs => events' = DocOr(saved_prev, <<>>) ]_vars

\* C5 witness: a start after a kill in the middle of writing state.json.tmp,
\* with a committed state.json on disk
CrashSafeSaveWitness ==
    /\ pc = "start"
    /\ crashedAt = "state_dump"
    /\ saved_prev.kind = "doc"
    /\ fs[TmpPath(STATE_FILE)].kind = "partial"

\* C6: no torn reads.  What a request handler loads is the event log the
\* last committed save wrote in full, or the empty list when none committed.
NoTornReads ==
    [][ (web_pc = "load" /\ web_pc' # "load" /\ pc' # "down") =>
            (web_pc' = "respond" /\ web_events' = committed) ]_vars

\* C6 witness: a handler that loaded the log while the monitor was in the
\* middle of saving a different one
NoTornReadsWitness ==
    /\ web_pc = "respond"
    /\ pc \in {"events_dump", "events_replace"}
    /\ web_events # <<>>
    /\ web_events # events

\* C7: the loop never ends.  The monitor thread never exits; a tick, however
\* it ends (for loop done, ApiException, any other exception), is followed by
\* the sleep, the sleep by the next scan, and the monitor always has a next
\* step (until the clock of the model reaches its bound).
LoopNeverEnds ==
    /\ [](pc # "exited")
    /\ []((pc \in TickPcs \/ (pc = "sleep" /\ now < MaxTime)) => ENABLED MonitorNext)
    /\ [][ /\ (pc \in TickPcs /\ pc' \notin TickPcs) => pc' \in {"sleep", "down"}
           /\ (pc = "sleep" /\ pc' # "sleep") => pc' \in {"scan", "down"} ]_vars

\* C7 witness: scanning again after a tick that a write error in the save of
\* the event log abandoned
LoopNeverEndsWitness ==
    /\ pc = "scan"
    /\ pending # <<>>
    /\ fs[TmpPath(EVENTS_FILE)].kind = "partial"

\* C8: cooldown not elapsed is a no-op.  When the detection at hand has
\* now_epoch - lastSent < COOLDOWN_SECONDS, the monitor's step calls no
\* send_gmail and leaves alert state, event list and files as they are; and
\* the event list grows only by the Event of a detection send_gmail was
\* called for in this tick.
CooldownNoOp ==
    [][ /\ (pc = "gate" /\ HasCur
              /\ now_epoch - EntryOf(Cur) < COOLDOWN_SECONDS) =>
              \/ pc' = "down"
              \/ (pc' = "gate" /\ UNCHANGED <<state, events, fs, lastTry, pending>>)
        /\ (events' # events /\ pc # "start" /\ pc' # "down") =>
              /\ pc = "append"
              /\ AttemptedNow(Cur)
              /\ lastTry[TupleOf(Cur)].ok = sent ]_vars

\* C8 witness: the for loop has moved past a detection whose cooldown has
\* not elapsed and for which nothing was attempted in this tick
CooldownNoOpWitness ==
    /\ pc = "gate"
    /\ idx > 1
    /\ ~AttemptedNow(crashloops[idx - 1])
    /\ now_epoch - EntryOf(crashloops[idx - 1]) < COOLDOWN_SECONDS

\* C9: load never fails.  No load ends the monitor thread or a request with
\* an error, and the monitor's start goes on to scan with the empty mapping
\* for a state file that is missing or corrupt and the empty list for an
\* event log that is missing or corrupt.
LoadNeverFails ==
    /\ [](pc # "exited" /\ web_pc # "error")
    /\ [][ (pc = "start" /\ pc' \notin {"start", "down"}) =>
              /\ pc' = "scan"
              /\ fs[STATE_FILE].kind # "doc" => state' = EmptyState
              /\ fs[EVENTS_FILE].kind # "doc" => events' = <<>> ]_vars

\* C9 witness: the monitor scanning, and a request answered with the empty
\* list, after both loaded a missing state file and a corrupt event log
LoadNeverFailsWitness ==
    /\ pc = "scan"
    /\ fs[STATE_FILE].kind = "absent"
    /\ fs[EVENTS_FILE].kind = "partial"
    /\ events = <<>>
    /\ state = EmptyState
    /\ web_pc = "respond"
    /\ web_events = <<>>

\* every detection record the scanner can produce from the model's cluster
Detectable ==
    UNION {{ListCrashloops(c, <<>>, 0)[i] : i \in 1..Len(ListCrashloops(c, <<>>, 0))}
           : c \in Snapshots}

\* C10: fingerprint identity.  Two detections have the same key exactly when
\* they agree on (namespace, pod, container, reason), whatever their restart
\* count, message and time; and no delivery is attempted for a detection
\* while a successful send for the same tuple lies less than
\* COOLDOWN_SECONDS back.
FingerprintIdentity ==
    /\ \A a, b \in Detectable \cup {crashloops[i] : i \in 1..Len(crashloops)} :
           (KeyOf(a) = KeyOf(b)) <=> (TupleOf(a) = TupleOf(b))
    /\ pc = "send" =>
           (TupleOf(Cur) \in DOMAIN lastOk =>
                now_epoch - lastOk[TupleOf(Cur)] >= COOLDOWN_SECONDS)

\* C10 witness: a detection with another restart count and message than the
\* one that was sent for the same tuple, held back by the cooldown
FingerprintIdentityWitness ==
    /\ pc = "gate"
    /\ HasCur
    /\ Cur.restarts = 5
    /\ TupleOf(Cur) \in DOMAIN lastOk
    /\ now_epoch - lastOk[TupleOf(Cur)] < COOLDOWN_SECONDS
    /\ \E i \in 1..Len(events) :
          /\ events[i].email_sent
          /\ events[i].restarts = 0
          /\ events[i].time = lastOk[TupleOf(Cur)]
          /\ TupleOf(events[i]) = TupleOf(Cur)

\* the alert state entries and Events a document (or the memory) holds that
\* carry the tick time t: the clock advances between two ticks, so these
\* are the entries and Events the tick at time t made
EntriesAt(st, t) == {k \in DOMAIN st : st[k] = t}
EventsAt(evs, t) == {i \in 1..Len(evs) : evs[i].time = t}
AttemptsAt(t) == {u \in DOMAIN lastTry : lastTry[u].at = t}

\* C11 as claimed: tick abandoned wholesale.  When a tick ends by an error
\* (ApiException from the scan, an exception from save_json) the loop goes to
\* the sleep and nothing of that tick remains: no delivery was made in it,
\* and neither the alert state nor the event list, in memory or on disk,
\* holds anything the tick wrote.
TickAbandonedWholesale ==
    [][ (ScanApiError \/ WriteError) =>
            /\ pc' = "sleep"
            /\ AttemptsAt(now_epoch) = {}
            /\ EntriesAt(state', now_epoch) = {}
            /\ EntriesAt(DocOr(fs'[STATE_FILE], EmptyState), now_epoch) = {}
            /\ EventsAt(events', now_epoch) = {}
            /\ EventsAt(DocOr(fs'[EVENTS_FILE], <<>>), now_epoch) = {} ]_vars

\* C12 as claimed: tick-level read consistency.  While a tick is running, the
\* event log a request handler has loaded holds either none of the Events of
\* this tick (the log as persisted before the tick) or as many of them as the
\* tick has persisted: never fewer, which would be a document from the
\* middle of the tick.
TickReadConsistency ==
    (web_pc = "respond" /\ pc \in TickPcs) =>
        \/ EventsAt(web_events, now_epoch) = {}
        \/ Cardinality(EventsAt(web_events, now_epoch))
               = Cardinality(EventsAt(committed, now_epoch))

\* the pcs at which send_gmail has returned for the detection at hand and
\* its dispatch is not finished
AfterSendPcs == {"append"} \cup SavePcs

\* C13 as claimed: every delivery attempt is recorded.  When the loop leaves
\* a detection for which send_gmail was called (for the next detection or
\* for the sleep, the process still running), the event list ends with the
\* Event of that detection carrying the outcome, and events.json holds that
\* list.
EveryAttemptRecorded ==
    [][ (pc \in AfterSendPcs /\ pc' \in {"gate", "sleep"}) =>
            /\ Len(events') > 0
            /\ events'[Len(events')] = EventOf(Cur, sent)
            /\ fs'[EVENTS_FILE] = Doc(events') ]_vars

\* the entry for a detection in state.json, 0 when there is none
PersistedEntry(e) == LastSent(DocOr(fs[STATE_FILE], EmptyState), KeyOf(e))

\* C14 as claimed: the cooldown survives a restart.  Whenever send_gmail is
\* about to be called for a detection, the last successful send for the same
\* tuple, by this or by an earlier run of the process, lies at least
\* COOLDOWN_SECONDS back.
CooldownSurvivesRestart ==
    (pc = "send" /\ TupleOf(Cur) \in DOMAIN delivered) =>
        now_epoch - delivered[TupleOf(Cur)] >= COOLDOWN_SECONDS

\* C14 amended: the same for every successful send whose entry reached
\* state.json (the save_json call that follows the send committed); the
\* save after a successful send writes the whole in-memory state, and the
\* start of the monitor loads what state.json holds.
CooldownSurvivesRestartOnceSaved ==
    /\ []((pc = "send" /\ TupleOf(Cur) \in DOMAIN delivered
             /\ PersistedEntry(Cur) = delivered[TupleOf(Cur)])
          => now_epoch - delivered[TupleOf(Cur)] >= COOLDOWN_SECONDS)
    /\ [][ /\ (pc = "state_replace" /\ pc' = "append") => fs'[STATE_FILE] = Doc(state)
           /\ (pc = "start" /\ pc' = "scan") =>
                 state' = DocOr(fs[STATE_FILE], EmptyState) ]_vars

\* C14 witness: after a kill and a restart, a detection held back by the
\* cooldown of a send the previous run made and saved
CooldownSurvivesRestartWitness ==
    /\ pc = "gate"
    /\ HasCur
    /\ TupleOf(Cur) \in DOMAIN delivered
    /\ TupleOf(Cur) \notin DOMAIN lastOk
    /\ PersistedEntry(Cur) = delivered[TupleOf(Cur)]
    /\ now_epoch - delivered[TupleOf(Cur)] < COOLDOWN_SECONDS
    /\ ~CooldownElapsed(now_epoch, LastSent(state, CurKey), COOLDOWN_SECONDS)

\* the detections of the running tick before position i that share the key
\* of the one at position i and were sent successfully in this tick
SentBefore(i) ==
    {j \in 1..(i - 1) :
        /\ KeyOf(crashloops[j]) = KeyOf(crashloops[i])
        /\ TupleOf(crashloops[j]) \in DOMAIN lastOk
        /\ lastOk[TupleOf(crashloops[j])] = now_epoch}

\* C15: intra-tick dedup.  The for loop takes the detections one by one in
\* scan order; under a positive cooldown a detection whose key was sent
\* successfully earlier in the same tick is stepped over with no send_gmail
\* call and no Event; and the event list never holds two successfully sent
\* Events of one tick for one tuple.
IntraTickDedup ==
    /\ []((COOLDOWN_SECONDS > 0 /\ pc \in TickPcs) =>
             \A i, j \in EventsAt(events, now_epoch) :
                 (events[i].email_sent /\ events[j].email_sent
                    /\ TupleOf(events[i]) = TupleOf(events[j])) => i = j)
    /\ [][ /\ (pc \in TickPcs /\ pc' \in TickPcs /\ pc # "scan") =>
                 (crashloops' = crashloops /\ idx' \in {idx, idx + 1})
           /\ (pc = "gate" /\ HasCur /\ COOLDOWN_SECONDS > 0
                 /\ SentBefore(idx) # {} /\ pc' # "down") =>
                 /\ pc' = "gate"
                 /\ idx' = idx + 1
                 /\ UNCHANGED <<state, events, fs, lastTry>> ]_vars

\* C15 witness: a tick with the same detection twice, the first sent
\* successfully and recorded, the second stepped over
IntraTickDedupWitness ==
    /\ pc = "gate"
    /\ COOLDOWN_SECONDS > 0
    /\ Len(crashloops) = 2
    /\ idx = 3
    /\ SentBefore(2) = {1}
    /\ Cardinality(EventsAt(events, now_epoch)) = 1
    /\ events[Len(events)].email_sent

\* C16: single writer.  A step of a request handler leaves state.json and
\* events.json as they are (ensure_data_dir finds events.json in place), and
\* every change of either file is a step of the monitor.
SingleWriter ==
    [][ /\ WebNext =>
              (fs'[STATE_FILE] = fs[STATE_FILE] /\ fs'[EVENTS_FILE] = fs[EVENTS_FILE])
        /\ (fs'[STATE_FILE] # fs[STATE_FILE] \/ fs'[EVENTS_FILE] # fs[EVENTS_FILE]) =>
              pc \in {"boot", "boot_dump", "state_replace", "events_replace"} ]_vars

\* C16 witness: a request answered from a log and beside an alert state that
\* the monitor wrote, both on disk as they were before the request
SingleWriterWitness ==
    /\ web_pc = "respond"
    /\ web_events # <<>>
    /\ fs[EVENTS_FILE] = Doc(web_events)
    /\ fs[STATE_FILE].kind = "doc"
    /\ fs[STATE_FILE].doc # EmptyState

\* the Event times of a list never decrease from first to last
TimeOrdered(evs) ==
    \A i, j \in 1..Len(evs) : i < j => evs[i].time <= evs[j].time

\* the Events of the running tick in a list follow the order of the scan
ScanOrdered(evs) ==
    \A i, j \in EventsAt(evs, now_epoch) :
        i < j => \E p, q \in 1..Len(crashloops) :
                    /\ p < q
                    /\ TupleOf(crashloops[p]) = TupleOf(evs[i])
                    /\ TupleOf(crashloops[q]) = TupleOf(evs[j])

\* C17: event order.  The event list, in memory and in events.json, has
\* non-decreasing Event times; within a tick its Events follow the order of
\* the scan; and an append puts the Event of the detection at hand last and
\* keeps the order of the Events that stay.
EventOrder ==
    /\ [](/\ TimeOrdered(events)
          /\ TimeOrdered(DocOr(fs[EVENTS_FILE], <<>>))
          /\ pc \in TickPcs => ScanOrdered(events)
          /\ pc \in TickPcs => ScanOrdered(DocOr(fs[EVENTS_FILE], <<>>)))
    /\ [][ (pc = "append" /\ pc' = "events_open") =>
              /\ events'[Len(events')] = EventOf(Cur, sent)
              /\ \A i \in 1..(Len(events') - 1) :
                    events'[i] = events[i + Len(events) + 1 - Len(events')] ]_vars

\* C17 witness: a save about to commit the two Events of the running tick in
\* scan order, after an older Event that the truncation drops
EventOrderWitness ==
    /\ pc = "events_replace"
    /\ Len(crashloops) = 2
    /\ idx = 2
    /\ TupleOf(crashloops[1]) # TupleOf(crashloops[2])
    /\ fs[EVENTS_FILE].kind = "doc"
    /\ Len(fs[EVENTS_FILE].doc) = MaxEvents
    /\ fs[EVENTS_FILE].doc[1].time < now_epoch
    /\ fs[TmpPath(EVENTS_FILE)].kind = "doc"
    /\ Len(fs[TmpPath(EVENTS_FILE)].doc) = MaxEvents
    /\ fs[TmpPath(EVENTS_FILE)].doc[MaxEvents - 1] = fs[EVENTS_FILE].doc[MaxEvents]
    /\ TupleOf(fs[TmpPath(EVENTS_FILE)].doc[MaxEvents - 1]) = TupleOf(crashloops[1])
    /\ TupleOf(fs[TmpPath(EVENTS_FILE)].doc[MaxEvents]) = TupleOf(crashloops[2])

\* the queries of a scan: one per entry of the filter, one in all without
QueryCount == IF NAMESPACES = <<>> THEN 1 ELSE Len(NAMESPACES)
Listed(k, p) == NAMESPACES = <<>> \/ cluster[p].namespace = NAMESPACES[k]
StatusesOf(pod) == pod.container_statuses \o pod.init_container_statuses
IsCrashLoop(st) == st.waiting # <<>> /\ st.waiting[1].reason = CrashLoop

\* (query, pod, status) positions of the crash-looping statuses a scan meets
StatusPositions ==
    UNION {{<<p, s>> : s \in 1..Len(StatusesOf(cluster[p]))} : p \in 1..Len(cluster)}
Hits ==
    {h \in {<<k, ps[1], ps[2]>> : k \in 1..QueryCount, ps \in StatusPositions} :
        /\ Listed(h[1], h[2])
        /\ IsCrashLoop(StatusesOf(cluster[h[2]])[h[3]])}

\* query by query, pod by pod, status by status
HitBefore(a, b) ==
    \/ a[1] < b[1]
    \/ a[1] = b[1] /\ a[2] < b[2]
    \/ a[1] = b[1] /\ a[2] = b[2] /\ a[3] < b[3]
HitRank(h) == Cardinality({g \in Hits : HitBefore(g, h)}) + 1

\* the detection record the claim describes for one hit
HitRecord(h) ==
    LET pod == cluster[h[2]]
        st == StatusesOf(pod)[h[3]]
        msg == st.waiting[1].message
    IN [time |-> now_epoch, namespace |-> pod.namespace, pod |-> pod.name,
        container |-> st.name,
        restarts |-> IF st.restart_count = <<>> THEN 0 ELSE st.restart_count[1],
        message |-> IF Len(msg) <= MessageLimit THEN msg
                    ELSE [i \in 1..MessageLimit |-> msg[i]],
        reason |-> CrashLoop]

\* C18: scanner result.  What list_crashloops returned holds exactly one
\* record per crash-looping status met, query by query in filter order (one
\* query when the filter is empty), pod by pod, regular statuses before init
\* statuses, with the restart count defaulting to 0 and the message cut to
\* MessageLimit characters; and nothing else.
ScannerResult ==
    pc = "gate" =>
        /\ Len(crashloops) = Cardinality(Hits)
        /\ \A h \in Hits : crashloops[HitRank(h)] = HitRecord(h)
        /\ \A i \in 1..Len(crashloops) : Len(crashloops[i].message) <= MessageLimit

\* C18 witness: a scan with a two-namespace filter, the second pod listed
\* first, its regular before its init container, and a message cut
ScannerResultWitness ==
    /\ pc = "gate"
    /\ NAMESPACES = <<"ns2", "ns1">>
    /\ cluster = <<PodA2, PodD>>
    /\ Len(crashloops) = 3
    /\ crashloops[1].pod = "p4" /\ crashloops[1].container = "c1"
    /\ crashloops[2].pod = "p4" /\ crashloops[2].container = "i1"
    /\ crashloops[2].restarts = 0
    /\ crashloops[3].pod = "p1"
    /\ Len(PodA2.container_statuses[1].waiting[1].message) > MessageLimit
    /\ Len(crashloops[3].message) = MessageLimit

\* C19 as claimed: memory and disk agree at tick boundaries.  Whenever the
\* loop sleeps, state.json holds the in-memory state (no file standing for
\* the empty mapping) and events.json holds the in-memory event list.
MemoryDiskAgree ==
    pc = "sleep" =>
        /\ DocOr(fs[STATE_FILE], EmptyState) = state
        /\ DocOr(fs[EVENTS_FILE], <<>>) = events

\* every successfully sent Event of evs has an entry in st at or after its
\* time
Covered(evs, st) ==
    \A i \in 1..Len(evs) :
        evs[i].email_sent =>
            /\ KeyOf(evs[i]) \in DOMAIN st
            /\ st[KeyOf(evs[i])] >= evs[i].time

\* no entry of st is missing from or smaller in st2
Grown(st, st2) ==
    \A k \in DOMAIN st : k \in DOMAIN st2 /\ st2[k] >= st[k]

\* C20: log and alert state are consistent.  Every successfully sent Event,
\* in the in-memory list or in events.json, has an entry at or after its
\* time in state.json, and those of the in-memory list in the in-memory
\* state; a send_gmail call that returned False leaves the alert state as it
\* is; and no entry is removed or decreased, in state.json ever and in
\* memory while the process runs.
LogStateConsistent ==
    /\ [](/\ Covered(events, state)
          /\ Covered(events, DocOr(fs[STATE_FILE], EmptyState))
          /\ Covered(DocOr(fs[EVENTS_FILE], <<>>), DocOr(fs[STATE_FILE], EmptyState)))
    /\ [][ /\ (pc = "send" /\ pc' = "append") =>
                 (state' = state /\ fs'[STATE_FILE] = fs[STATE_FILE])
           /\ Grown(DocOr(fs[STATE_FILE], EmptyState), DocOr(fs'[STATE_FILE], EmptyState))
           /\ pc' # "down" => Grown(state, state') ]_vars

\* C20 witness: events.json holds a successfully sent Event whose entry in
\* state.json a later send has raised, and a failed one
LogStateConsistentWitness ==
    /\ fs[EVENTS_FILE].kind = "doc"
    /\ fs[STATE_FILE].kind = "doc"
    /\ \E i, j \in 1..Len(fs[EVENTS_FILE].doc) :
          /\ fs[EVENTS_FILE].doc[i].email_sent
          /\ fs[STATE_FILE].doc[KeyOf(fs[EVENTS_FILE].doc[i])] > fs[EVENTS_FILE].doc[i].time
          /\ ~fs[EVENTS_FILE].doc[j].email_sent

====
